---- MODULE Spec2Model ----
(***************************************************************************)
(* Predicate functional evaluation framework (predicate/functional.cpp):   *)
(* one Functional::Impl::Call node, its children, its compilation          *)
(* (pre_transform, transform, post_transform) and one transaction's        *)
(* GraphEvalState.  The Base of the call is a Simple, Map, Filter or       *)
(* Selector function, or a custom subclass of Base.                        *)
(***************************************************************************)
EXTENDS Integers, Sequences, FiniteSets, TLC

VARIABLES
    call,    \* the Call node and its Base: immutable during evaluation
    ges,     \* GraphEvalState: node index -> NodeEvalState (0 is the call)
    state,   \* call_state_t of the call: unfinished arguments and the substate
    log,     \* the hook invocations made so far in this transaction
    readied, \* TRUE once ready() has been invoked in this transaction
    last,    \* what the most recent operation of the transaction did
    phase,   \* "new", "pre_transformed", "transformed" while compiling;
             \* "post_transformed" before final indexing, "uninit" before
             \* GraphEvalState initialization, then "running"
    extra,   \* eval_calculate calls made on the already finished call node
    comp,    \* what compilation did: reports, transform effects, merge graph
    other,   \* a second transaction over the same graph, with its own state
    pool,    \* a MemoryPoolLite with the cleanup functions registered on it
    str      \* one ib_strstr call: its arguments, locals and result

vars == <<call, ges, state, log, readied, last, phase, extra, comp, other, pool, str>>

(***************************************************************************)
(* Bounds of the model.                                                    *)
(***************************************************************************)
MaxLen == 3
MaxReinvoke == 2

(* The scalar payloads that occur as list elements and argument values. *)
Vals == {1, 2}

(***************************************************************************)
(* Value: Null, a scalar, or an ordered list of values.                    *)
(***************************************************************************)
Null == [t |-> "null", n |-> 0, l |-> <<>>]
Num(k) == [t |-> "num", n |-> k, l |-> <<>>]
List(s) == [t |-> "list", n |-> 0, l |-> s]

is_null(v) == v.t = "null"
is_list(v) == v.t = "list"

RECURSIVE SumN(_)
SumN(s) == IF s = <<>> THEN 0 ELSE Head(s).n + SumN(Tail(s))

Scalars == {Num(k) : k \in Vals}

(***************************************************************************)
(* NodeEvalState: value, finished flag, and whether a local list is set up.*)
(***************************************************************************)
NodeEvalState == [value |-> Null, finished |-> FALSE, local |-> FALSE]

finish(ns) == [ns EXCEPT !.finished = TRUE]

finish_value(ns, v) == [ns EXCEPT !.finished = TRUE, !.value = v]

setup_local_list(ns) ==
    IF ns.local THEN ns
    ELSE [ns EXCEPT !.local = TRUE, !.value = List(<<>>)]

append_to_list(ns, v) == [ns EXCEPT !.value = List(Append(@.l, v))]

(***************************************************************************)
(* The function-specific hooks of the Base (pure virtual in the framework):*)
(* a doubling map, set-membership predicates and an adding simple function.*)
(***************************************************************************)
eval_simple(base, args) == Num(SumN(args) + Len(args))

eval_map(base, sec, sub) == Num(2 * sub.n + SumN(sec))

eval_filter(base, sec, sub) ==
    [pass |-> sub.n \in base.pass, early_finish |-> sub.n = base.early]

eval_selector(base, sec, sub) == sub.n \in base.pass

validate_argument(base, pos, v) == ~(base.reject # 0 /\ v = Num(base.reject))

LogEntry(op, v, args) == [op |-> op, v |-> v, args |-> args]

(***************************************************************************)
(* An evaluation step works on a record m: the call's NodeEvalState (my),  *)
(* its call_state_t (unfinished, each), the hook log and what the step did.*)
(***************************************************************************)
each_state_t == [initialized |-> FALSE, last_subvalue |-> 0]

NumChildren(c) == Len(c.children)

Map_ready(m, primary_value) ==
    IF is_list(primary_value)
    THEN [m EXCEPT !.my = setup_local_list(@)]
    ELSE m

(* Mutant: readiness is recorded on the shared Base instead of the         *)
(* transaction's NodeEvalState.                                            *)
Filter_ready_OnBase(m, primary_value) ==
    IF is_list(primary_value)
    THEN [m EXCEPT !.my = setup_local_list(@), !.node.pass = {}]
    ELSE m

Filter_ready(m, primary_value) ==
    IF is_list(primary_value)
    THEN [m EXCEPT !.my = setup_local_list(@)]
    ELSE m

(* Mutant: the default ready turns the primary child into a literal. *)
Each_ready_Rewriting(m, primary_value) ==
    [m EXCEPT !.node.children[Len(m.node.children)].literal = TRUE]

Each_ready(m, primary_value) == m

ready(base, m, secondary_args, primary_value) ==
    LET m1 == [m EXCEPT !.ready_calls = @ + 1]
    IN CASE base.kind = "Map" -> Map_ready(m1, primary_value)
         [] base.kind = "Filter" -> Filter_ready(m1, primary_value)
         [] OTHER -> Each_ready(m1, primary_value)

(* Mutant: the subvalue itself is stored instead of eval_map's result. *)
Map_eval_each_Identity(base, m, secondary_args, primary_value, subvalue) ==
    LET m1 == [m EXCEPT !.log = Append(@, LogEntry("eval_map", subvalue, secondary_args))]
    IN IF ~is_list(primary_value)
       THEN [m1 EXCEPT !.my = finish_value(@, subvalue)]
       ELSE [m1 EXCEPT !.my = append_to_list(@, subvalue)]

Map_eval_each(base, m, secondary_args, primary_value, subvalue) ==
    LET r == eval_map(base, secondary_args, subvalue)
        m1 == [m EXCEPT !.log = Append(@, LogEntry("eval_map", subvalue, secondary_args))]
    IN IF ~is_list(primary_value)
       THEN [m1 EXCEPT !.my = finish_value(@, r)]
       ELSE [m1 EXCEPT !.my = append_to_list(@, r)]

(* Mutant: early_finish is ignored in the list case. *)
Filter_eval_each_NoEarly(base, m, secondary_args, primary_value, subvalue) ==
    LET r == eval_filter(base, secondary_args, subvalue)
        m1 == [m EXCEPT !.log = Append(@, LogEntry("eval_filter", subvalue, secondary_args))]
    IN IF ~is_list(primary_value)
       THEN IF r.pass
            THEN [m1 EXCEPT !.my = finish_value(@, subvalue)]
            ELSE [m1 EXCEPT !.my = finish(@)]
       ELSE IF r.pass
            THEN [m1 EXCEPT !.my = append_to_list(@, subvalue)]
            ELSE m1

(* Mutant: an early finish ends the node before the element is appended. *)
Filter_eval_each_FinishFirst(base, m, secondary_args, primary_value, subvalue) ==
    LET r == eval_filter(base, secondary_args, subvalue)
        m1 == [m EXCEPT !.log = Append(@, LogEntry("eval_filter", subvalue, secondary_args))]
    IN IF ~is_list(primary_value)
       THEN IF r.pass
            THEN [m1 EXCEPT !.my = finish_value(@, subvalue)]
            ELSE [m1 EXCEPT !.my = finish(@)]
       ELSE IF r.early_finish
            THEN [m1 EXCEPT !.my = finish(@)]
            ELSE IF r.pass
                 THEN [m1 EXCEPT !.my = append_to_list(@, subvalue)]
                 ELSE m1

(* Mutant: an early-finishing scalar finishes the node without a value. *)
Filter_eval_each_ScalarEarly(base, m, secondary_args, primary_value, subvalue) ==
    LET r == eval_filter(base, secondary_args, subvalue)
        m1 == [m EXCEPT !.log = Append(@, LogEntry("eval_filter", subvalue, secondary_args))]
    IN IF ~is_list(primary_value)
       THEN IF r.pass /\ ~r.early_finish
            THEN [m1 EXCEPT !.my = finish_value(@, subvalue)]
            ELSE [m1 EXCEPT !.my = finish(@)]
       ELSE LET m2 == IF r.pass
                      THEN [m1 EXCEPT !.my = append_to_list(@, subvalue)]
                      ELSE m1
            IN IF r.early_finish
               THEN [m2 EXCEPT !.my = finish(@)]
               ELSE m2

(* Mutant: every subvalue is appended, passing or not. *)
Filter_eval_each_AppendAll(base, m, secondary_args, primary_value, subvalue) ==
    LET r == eval_filter(base, secondary_args, subvalue)
        m1 == [m EXCEPT !.log = Append(@, LogEntry("eval_filter", subvalue, secondary_args))]
    IN IF ~is_list(primary_value)
       THEN IF r.pass
            THEN [m1 EXCEPT !.my = finish_value(@, subvalue)]
            ELSE [m1 EXCEPT !.my = finish(@)]
       ELSE LET m2 == [m1 EXCEPT !.my = append_to_list(@, subvalue)]
            IN IF r.early_finish
               THEN [m2 EXCEPT !.my = finish(@)]
               ELSE m2

Filter_eval_each(base, m, secondary_args, primary_value, subvalue) ==
    LET r == eval_filter(base, secondary_args, subvalue)
        m1 == [m EXCEPT !.log = Append(@, LogEntry("eval_filter", subvalue, secondary_args))]
    IN IF ~is_list(primary_value)
       THEN IF r.pass
            THEN [m1 EXCEPT !.my = finish_value(@, subvalue)]
            ELSE [m1 EXCEPT !.my = finish(@)]
       ELSE LET m2 == IF r.pass
                      THEN [m1 EXCEPT !.my = append_to_list(@, subvalue)]
                      ELSE m1
            IN IF r.early_finish
               THEN [m2 EXCEPT !.my = finish(@)]
               ELSE m2

Selector_eval_each(base, m, secondary_args, primary_value, subvalue) ==
    LET pass == eval_selector(base, secondary_args, subvalue)
        m1 == [m EXCEPT !.log = Append(@, LogEntry("eval_selector", subvalue, secondary_args))]
    IN IF pass
       THEN [m1 EXCEPT !.my = finish_value(@, subvalue)]
       ELSE m1

eval_each(base, m, secondary_args, primary_value, subvalue) ==
    LET m1 == [m EXCEPT !.log = Append(@, LogEntry("eval_each", subvalue, secondary_args))]
    IN CASE base.kind = "Map" ->
              Map_eval_each(base, m1, secondary_args, primary_value, subvalue)
         [] base.kind = "Filter" ->
              Filter_eval_each(base, m1, secondary_args, primary_value, subvalue)
         [] OTHER ->
              Selector_eval_each(base, m1, secondary_args, primary_value, subvalue)

(* Mutant: the loop does not return when an element finishes the node. *)
RECURSIVE EachLoop_NoStop(_, _, _, _, _)
EachLoop_NoStop(base, m, secondary_args, primary_value, iter) ==
    IF iter > Len(primary_value.l) THEN m
    ELSE LET m1 == eval_each(base, m, secondary_args, primary_value,
                             primary_value.l[iter])
         IN EachLoop_NoStop(base, [m1 EXCEPT !.each.last_subvalue = iter],
                            secondary_args, primary_value, iter + 1)

(* The while loop of Each::eval_primary, from the list position iter on. *)
RECURSIVE EachLoop(_, _, _, _, _)
EachLoop(base, m, secondary_args, primary_value, iter) ==
    IF iter > Len(primary_value.l) THEN m
    ELSE LET m1 == eval_each(base, m, secondary_args, primary_value,
                             primary_value.l[iter])
         IN IF m1.my.finished THEN m1
            ELSE EachLoop(base, [m1 EXCEPT !.each.last_subvalue = iter],
                          secondary_args, primary_value, iter + 1)

(* Mutant: Null is propagated without waiting for the primary to finish. *)
Each_eval_null_Eager(m, primary_arg) ==
    [m EXCEPT !.my = finish_value(@, primary_arg.value)]

(* Null primary: propagate Null once the primary is finished. *)
Each_eval_null(m, primary_arg) ==
    IF primary_arg.finished
    THEN [m EXCEPT !.my = finish_value(@, primary_arg.value)]
    ELSE m

(* Mutant: the node is left open when eval_each did not finish it. *)
Each_eval_scalar_NoFinish(base, m, secondary_args, primary_value) ==
    LET m1 == ready(base, m, secondary_args, primary_value)
    IN eval_each(base, m1, secondary_args, primary_value, primary_value)

(* Non-list primary: one ready, one eval_each, then finish if still open. *)
Each_eval_scalar(base, m, secondary_args, primary_value) ==
    LET m1 == ready(base, m, secondary_args, primary_value)
        m2 == eval_each(base, m1, secondary_args, primary_value, primary_value)
    IN IF ~m2.my.finished THEN [m2 EXCEPT !.my = finish(@)] ELSE m2

(* Empty primary list: finish only when the primary is finished. *)
Each_eval_empty(m, primary_arg) ==
    IF primary_arg.finished /\ ~m.my.finished
    THEN [m EXCEPT !.my = finish(@)]
    ELSE m

(* Mutant: the finished check is missing. *)
AlreadyFinished_Never(m) == FALSE

(* The check that ends eval_primary for an already finished node. *)
AlreadyFinished(m) == m.my.finished

(* Mutant: the iteration restarts at the list's begin on every call. *)
FirstSubvalue_Rewind(each_state) == 1

(* Where the iteration resumes: the list's begin, or the element after    *)
(* last_subvalue.                                                          *)
FirstSubvalue(each_state) ==
    IF ~each_state.initialized THEN 1
    ELSE each_state.last_subvalue + 1

(* Mutant: the finish after the loop is missing. *)
FinishIfPrimaryFinished_Never(m, primary_arg) == m

(* After the loop: the node finishes when the primary is finished. *)
FinishIfPrimaryFinished(m, primary_arg) ==
    IF primary_arg.finished
    THEN IF ~m.my.finished THEN [m EXCEPT !.my = finish(@)] ELSE m
    ELSE m

(* Mutant: ready is skipped once the iteration over the list has begun. *)
Each_eval_list_ReadyOnce(base, m, secondary_args, primary_arg) ==
    LET primary_value == primary_arg.value
        m1 == IF m.each.initialized THEN m
              ELSE ready(base, m, secondary_args, primary_value)
    IN IF primary_value.l = <<>> THEN Each_eval_empty(m1, primary_arg)
       ELSE IF AlreadyFinished(m1) THEN m1
       ELSE LET subvalue_iter == FirstSubvalue(m1.each)
                m2 == [m1 EXCEPT !.each.initialized = TRUE]
                m3 == EachLoop(base, m2, secondary_args, primary_value,
                               subvalue_iter)
            IN IF m3.my.finished THEN m3
               ELSE FinishIfPrimaryFinished(m3, primary_arg)

Each_eval_list(base, m, secondary_args, primary_arg) ==
    LET primary_value == primary_arg.value
        m1 == ready(base, m, secondary_args, primary_value)
    IN IF primary_value.l = <<>> THEN Each_eval_empty(m1, primary_arg)
       ELSE IF AlreadyFinished(m1) THEN m1
       ELSE LET subvalue_iter == FirstSubvalue(m1.each)
                m2 == [m1 EXCEPT !.each.initialized = TRUE]
                m3 == EachLoop(base, m2, secondary_args, primary_value,
                               subvalue_iter)
            IN IF m3.my.finished THEN m3
               ELSE FinishIfPrimaryFinished(m3, primary_arg)

Each_eval_primary(base, m, secondary_args, primary_arg) ==
    LET primary_value == primary_arg.value IN
    IF is_null(primary_value) THEN Each_eval_null(m, primary_arg)
    ELSE IF ~is_list(primary_value)
    THEN Each_eval_scalar(base, m, secondary_args, primary_value)
    ELSE Each_eval_list(base, m, secondary_args, primary_arg)

eval_primary(base, m, values, primary_state) ==
    Each_eval_primary(base,
        [m EXCEPT !.primary_called = TRUE, !.sec = values, !.prim = primary_state],
        values, primary_state)

(* Positions are 1-based here: child i of the source is position i + 1,   *)
(* and its NodeEvalState is ges[i + 1].                                    *)
SecondaryPositions(c) == (c.num_static_args + 1)..(NumChildren(c) - 1)

RECURSIVE ValuesOf(_, _, _)
ValuesOf(g, from, to) ==
    IF from > to THEN <<>>
    ELSE <<g[from].value>> \o ValuesOf(g, from + 1, to)

(* Mutant: unfinished secondary children do not stop Primary::eval. *)
SecondaryUnfinished_Never(c, g) == FALSE

(* The loop's early return: some secondary dynamic child is unfinished. *)
SecondaryUnfinished(c, g) == \E p \in SecondaryPositions(c) : ~g[p].finished

(* Mutant: every dynamic child, the last one included, is passed as a      *)
(* secondary value.                                                        *)
Primary_eval_AllSecondary(c, m, g) ==
    LET n == NumChildren(c) IN
    IF n = 0 THEN [m EXCEPT !.abort = TRUE]
    ELSE IF SecondaryUnfinished(c, g) THEN m
    ELSE eval_primary(c, m, ValuesOf(g, c.num_static_args + 1, n), g[n])

Primary_eval(c, m, g) ==
    LET n == NumChildren(c) IN
    IF n = 0 THEN [m EXCEPT !.abort = TRUE]
    ELSE IF SecondaryUnfinished(c, g) THEN m
    ELSE eval_primary(c, m, ValuesOf(g, c.num_static_args + 1, n - 1), g[n])

DynamicPositions(c) == (c.num_static_args + 1)..NumChildren(c)

(* Mutant: unfinished dynamic children do not stop Simple::eval. *)
DynamicUnfinished_Never(c, g) == FALSE

(* The loop's early return: some dynamic child is unfinished. *)
DynamicUnfinished(c, g) == \E p \in DynamicPositions(c) : ~g[p].finished

Simple_eval(c, m, g) ==
    LET n == NumChildren(c)
        args == [i \in 1..c.num_dynamic_args |-> Null]
                    \o ValuesOf(g, c.num_static_args + 1, n)
    IN IF DynamicUnfinished(c, g) THEN m
       ELSE [m EXCEPT !.my = finish_value(@, eval_simple(c, args)),
                      !.log = Append(@, LogEntry("eval_simple", Null, args))]

(* A subclass of Base with an eval of its own that needs two calls: the    *)
(* first sets up its list value, the second finishes it.                   *)
Custom_eval(c, m, g) ==
    IF DynamicUnfinished(c, g) THEN m
    ELSE IF m.my.local THEN [m EXCEPT !.my = finish(@)]
    ELSE [m EXCEPT !.my = setup_local_list(@)]

Base_eval(c, m, g) ==
    LET m1 == [m EXCEPT !.evaled = TRUE]
    IN IF c.kind = "Simple" THEN Simple_eval(c, m1, g)
       ELSE IF c.kind = "Custom" THEN Custom_eval(c, m1, g)
       ELSE Primary_eval(c, m1, g)

(* Mutant: the failing argument is erased before the failure is raised. *)
RECURSIVE validate_args_EraseFailing(_, _, _, _)
validate_args_EraseFailing(c, args, g, acc) ==
    IF args = <<>> THEN acc
    ELSE LET pos == Head(args) IN
         IF g[pos].finished
         THEN LET acc1 == [acc EXCEPT !.validated = Append(@, <<pos, g[pos].value>>)]
              IN IF ~validate_argument(c, pos, g[pos].value)
                 THEN [acc1 EXCEPT !.raised = TRUE, !.unfinished = @ \o Tail(args)]
                 ELSE validate_args_EraseFailing(c, Tail(args), g, acc1)
         ELSE validate_args_EraseFailing(c, Tail(args), g,
                            [acc EXCEPT !.unfinished = Append(@, pos)])

(* Mutant: a validated argument is not erased from the unfinished list. *)
RECURSIVE validate_args_KeepAll(_, _, _, _)
validate_args_KeepAll(c, args, g, acc) ==
    IF args = <<>> THEN acc
    ELSE LET pos == Head(args) IN
         IF g[pos].finished
         THEN LET acc1 == [acc EXCEPT !.validated = Append(@, <<pos, g[pos].value>>)]
              IN IF ~validate_argument(c, pos, g[pos].value)
                 THEN [acc1 EXCEPT !.raised = TRUE, !.unfinished = @ \o args]
                 ELSE validate_args_KeepAll(c, Tail(args), g,
                          [acc1 EXCEPT !.unfinished = Append(@, pos)])
         ELSE validate_args_KeepAll(c, Tail(args), g,
                            [acc EXCEPT !.unfinished = Append(@, pos)])

(* validate_args: walks the unfinished list; a finished argument is        *)
(* validated and erased, a failing one raises and stays in the list.       *)
RECURSIVE validate_args(_, _, _, _)
validate_args(c, args, g, acc) ==
    IF args = <<>> THEN acc
    ELSE LET pos == Head(args) IN
         IF g[pos].finished
         THEN LET acc1 == [acc EXCEPT !.validated = Append(@, <<pos, g[pos].value>>)]
              IN IF ~validate_argument(c, pos, g[pos].value)
                 THEN [acc1 EXCEPT !.raised = TRUE, !.unfinished = @ \o args]
                 ELSE validate_args(c, Tail(args), g, acc1)
         ELSE validate_args(c, Tail(args), g,
                            [acc EXCEPT !.unfinished = Append(@, pos)])

(* Mutant: Base::eval runs although validate_args raised. *)
Call_eval_calculate_EvalAnyway(c, m, g) ==
    LET v == validate_args(c, m.unfinished, g,
                 [unfinished |-> <<>>, raised |-> FALSE, validated |-> <<>>])
    IN Base_eval(c, [m EXCEPT !.unfinished = v.unfinished, !.raised = v.raised,
                              !.validated = v.validated], g)

Call_eval_calculate(c, m, g) ==
    LET v == validate_args(c, m.unfinished, g,
                 [unfinished |-> <<>>, raised |-> FALSE, validated |-> <<>>])
        m1 == [m EXCEPT !.unfinished = v.unfinished, !.raised = v.raised,
                        !.validated = v.validated]
    IN IF v.raised THEN m1 ELSE Base_eval(c, m1, g)

RECURSIVE NonLiteral(_, _)
NonLiteral(c, p) ==
    IF p > NumChildren(c) THEN <<>>
    ELSE (IF c.children[p].literal THEN <<>> ELSE <<p>>) \o NonLiteral(c, p + 1)

Each_eval_initialize(c) == each_state_t

Call_eval_initialize(c) ==
    [unfinished |-> NonLiteral(c, 1), each |-> Each_eval_initialize(c)]

(***************************************************************************)
(* The call nodes considered: a Base of one of four kinds, with            *)
(* num_static_args literal children followed by num_dynamic_args dynamic   *)
(* children, each of which is a literal or a node evaluated at run time.   *)
(* shared: equal literal children are one and the same node.  rewrites:    *)
(* the Base overrides transform and reports a rewrite of its own.          *)
(***************************************************************************)
Kinds == {"Simple", "Map", "Filter", "Selector"}

StaticArgCounts == {0, 1}
DynamicArgCounts == {0, 1, 2}

LiteralChild(v) == [literal |-> TRUE, value |-> v]
DynamicChild == [literal |-> FALSE, value |-> Null]

LiteralValue(p, n) ==
    IF p = n THEN List(<<Num(1), Num(2)>>) ELSE Num(1)

ChildrenChoices(S, D) ==
    {ch \in [1..(S + D) -> {LiteralChild(Num(1)),
                            LiteralChild(List(<<Num(1), Num(2)>>)),
                            DynamicChild}] :
        \A p \in 1..(S + D) :
            /\ p <= S => ch[p].literal
            /\ ch[p].literal => ch[p].value = LiteralValue(p, S + D)}

PassChoices(k) == IF k \in {"Filter", "Selector"} THEN SUBSET Vals ELSE {{}}
EarlyChoices(k) == IF k = "Filter" THEN {0} \cup Vals ELSE {0}

CallsOf(k, S, D) ==
    {[kind |-> k, num_static_args |-> S, num_dynamic_args |-> D,
      children |-> ch, pass |-> ps, early |-> e, reject |-> r,
      shared |-> FALSE, rewrites |-> FALSE] :
        ch \in ChildrenChoices(S, D), ps \in PassChoices(k),
        e \in EarlyChoices(k), r \in {0, 1}}

Calls ==
    UNION {CallsOf(k, S, D) :
             k \in Kinds, S \in StaticArgCounts, D \in DynamicArgCounts}

AllLiteral(c) == \A p \in 1..NumChildren(c) : c.children[p].literal

(* Calls in which one literal node occurs at several child positions. *)
SharedCalls ==
    {[c EXCEPT !.shared = TRUE] :
        c \in {d \in Calls :
                 /\ AllLiteral(d)
                 /\ \E p, q \in 1..NumChildren(d) :
                        p < q /\ d.children[p] = d.children[q]}}

(* Calls written with one child more, or one child fewer, than            *)
(* num_static_args + num_dynamic_args.                                     *)
MisArityCalls ==
    {[c EXCEPT !.num_dynamic_args = @ - 1] :
        c \in {d \in Calls : d.num_dynamic_args >= 1}}
    \cup {[c EXCEPT !.num_dynamic_args = @ + 1] : c \in Calls}

(* Calls of a Base subclass with an eval and possibly a transform of its   *)
(* own.                                                                    *)
CustomCallsOf(S, D) ==
    {[kind |-> "Custom", num_static_args |-> S, num_dynamic_args |-> D,
      children |-> ch, pass |-> {}, early |-> 0, reject |-> r,
      shared |-> FALSE, rewrites |-> w] :
        ch \in ChildrenChoices(S, D), r \in {0, 1}, w \in BOOLEAN}

CustomCalls ==
    UNION {CustomCallsOf(S, D) : S \in StaticArgCounts, D \in {0, 1}}

(* Calls whose static argument is not a literal. *)
NonLiteralStaticCalls ==
    {[c EXCEPT !.children[1] = DynamicChild] :
        c \in {d \in Calls : d.num_static_args = 1}}

AllCalls ==
    Calls \cup SharedCalls \cup MisArityCalls \cup CustomCalls
        \cup NonLiteralStaticCalls

(***************************************************************************)
(* Compilation: Call::pre_transform, Call::transform, Call::post_transform.*)
(* Reports go to the NodeReporter; child positions are counted from 0 as   *)
(* in the source, so the child at position p of the model has number p - 1.*)
(***************************************************************************)
(* Validate::n_children: TRUE iff the node has exactly n children;         *)
(* otherwise an error is reported.                                         *)
n_children(c, n) == NumChildren(c) = n

(* Mutant: the arity check of pre_transform accepts every child count. *)
ArityOkay_Always(c) == TRUE

ArityOkay(c) == n_children(c, c.num_static_args + c.num_dynamic_args)

(* Mutant: a failing literal raises instead of being reported. *)
ValidateLiteral_Raises(c, p, acc) ==
    IF validate_argument(c, p - 1, c.children[p].value)
    THEN [acc EXCEPT !.validated = Append(@, <<p - 1, c.children[p].value>>)]
    ELSE [acc EXCEPT !.raised = TRUE]

(* One validate_argument call on the literal child at position p. *)
ValidateLiteral(c, p, acc) ==
    LET v == c.children[p].value
        acc1 == [acc EXCEPT !.validated = Append(@, <<p - 1, v>>)]
    IN IF validate_argument(c, p - 1, v) THEN acc1
       ELSE [acc1 EXCEPT !.errors = Append(@, <<"validate_argument", p - 1>>)]

(* Mutant: pre_transform validates every child, literal or not. *)
PreValidates_All(c, p) == TRUE

PreValidates(c, p) == c.children[p].literal

RECURSIVE PreValidateChildren(_, _, _)
PreValidateChildren(c, p, acc) ==
    IF p > NumChildren(c) THEN acc
    ELSE PreValidateChildren(c, p + 1,
             IF PreValidates(c, p) THEN ValidateLiteral(c, p, acc) ELSE acc)

NoReport == [errors |-> <<>>, validated |-> <<>>, raised |-> FALSE]

Call_pre_transform(c) ==
    IF ~ArityOkay(c)
    THEN [NoReport EXCEPT !.errors = <<<<"n_children", NumChildren(c)>>>>]
    ELSE PreValidateChildren(c, 1, NoReport)

Min(a, b) == IF a < b THEN a ELSE b

(* Mutant: no child counts as a static argument. *)
StaticPosition_Never(c, p) == FALSE

(* The first loop of post_transform covers i < min(num_static_args, n). *)
StaticPosition(c, p) == p <= Min(c.num_static_args, NumChildren(c))

(* Validate::nth_child_is_literal, then validate_argument, for the static  *)
(* children; validate_argument for the remaining children that are literal.*)
RECURSIVE PostValidateChildren(_, _, _)
PostValidateChildren(c, p, acc) ==
    IF p > NumChildren(c) THEN acc
    ELSE PostValidateChildren(c, p + 1,
             IF c.children[p].literal THEN ValidateLiteral(c, p, acc)
             ELSE IF StaticPosition(c, p)
             THEN [acc EXCEPT !.errors = Append(@, <<"nth_child_is_literal", p - 1>>)]
             ELSE acc)

Call_post_transform(c) == PostValidateChildren(c, 1, NoReport)

(* Base::transform: the default reports no rewrite. *)
Base_transform(c) == c.rewrites

(* The node at child position p: the first position holding that node. *)
NodeOf(c, p) ==
    IF c.shared /\ c.children[p].literal
    THEN CHOOSE q \in 1..p :
            /\ c.children[q] = c.children[p]
            /\ \A r \in 1..(q - 1) : c.children[r] # c.children[p]
    ELSE p

(* set_index(0) on the call, then set_index(1), set_index(2), ... on the   *)
(* children in order: a node that occurs twice keeps the later index.      *)
FoldIndex(c, p) ==
    CHOOSE q \in p..NumChildren(c) :
        /\ NodeOf(c, q) = NodeOf(c, p)
        /\ \A r \in (q + 1)..NumChildren(c) : NodeOf(c, r) # NodeOf(c, p)

(* Mutant: the fold leaves the node indices unassigned. *)
FoldIndices_Unassigned(c) == [p \in 0..NumChildren(c) |-> -1]

FoldIndices(c) ==
    [p \in 0..NumChildren(c) |-> IF p = 0 THEN 0 ELSE FoldIndex(c, p)]

(* Mutant: ges.initialize is called for every child position. *)
FoldInitCalls_PerPosition(c, p, seen) ==
    [k \in 1..(NumChildren(c) - p + 1) |-> NodeOf(c, p + k - 1)]

(* The ges.initialize calls on the children: one per distinct node. *)
RECURSIVE FoldInitCalls(_, _, _)
FoldInitCalls(c, p, seen) ==
    IF p > NumChildren(c) THEN <<>>
    ELSE IF NodeOf(c, p) \in seen THEN FoldInitCalls(c, p + 1, seen)
    ELSE <<NodeOf(c, p)>> \o FoldInitCalls(c, p + 1, seen \cup {NodeOf(c, p)})

(* Mutant: each child is initialized as its index is assigned, before a   *)
(* later position overwrites the index of a node that occurs twice.        *)
FoldGes_EarlyInit(c, idx, calls) ==
    [i \in 0..NumChildren(c) |->
        IF \E k \in 1..Len(calls) : calls[k] = i
        THEN finish_value(NodeEvalState, c.children[i].value)
        ELSE NodeEvalState]

(* The isolated GraphEvalState of index slots after those calls: a literal *)
(* is finished with its value in the slot of its index.                    *)
FoldGes(c, idx, calls) ==
    [i \in 0..NumChildren(c) |->
        IF \E k \in 1..Len(calls) : idx[calls[k]] = i
        THEN finish_value(NodeEvalState,
                 c.children[calls[CHOOSE k \in 1..Len(calls) :
                                      idx[calls[k]] = i]].value)
        ELSE NodeEvalState]

(* What evaluation reads for the child at position p: the slot of its index. *)
FoldView(c, idx, slots) == [p \in 0..NumChildren(c) |-> slots[idx[p]]]

(* The slots of the isolated GraphEvalState that ges.initialize filled. *)
FoldSlots(c, slots) == {i \in 0..NumChildren(c) : slots[i].finished}

(* The indices evaluation reads: the node's own and those of the children  *)
(* from position num_static_args on.                                       *)
FoldReads(c, idx) ==
    {idx[0]} \cup {idx[p] : p \in (c.num_static_args + 1)..NumChildren(c)}

(* prepare_call: the literal values of the static children go to prepare. *)
prepare_call(c) == [i \in 1..c.num_static_args |-> c.children[i].value]

FoldMachine(c, st) ==
    [my |-> NodeEvalState, unfinished |-> st.unfinished, each |-> st.each,
     log |-> <<>>, ready_calls |-> 0, raised |-> FALSE, abort |-> FALSE,
     validated |-> <<>>, evaled |-> FALSE, primary_called |-> FALSE,
     sec |-> <<>>, prim |-> NodeEvalState, node |-> c]

(* Mutant: the node is replaced whether or not it finished. *)
FoldFinished_Always(my) == TRUE

FoldFinished(my) == my.finished

(* Mutant: the replacement literal does not hold the computed value. *)
ReplacementLiteral_Null(my) == Null

(* new Literal(mpl, my_state.value()) *)
ReplacementLiteral(my) == my.value

(* Mutant: the indices are assigned before the literal check. *)
KeepsIndices_Never(c, idx) == FoldIndices(c)

(* The early return leaves every node index as it was. *)
KeepsIndices(c, idx) == idx

(* Mutant: the unfinished node reports a rewrite. *)
UnfinishedResult_True(c) == TRUE

(* The else branch returns what Base::transform returns. *)
UnfinishedResult(c) == Base_transform(c)

(* Mutant: the scratch pool of an unfinished node is kept alive. *)
PoolAtExit_Leak(constructed) == "alive"

(* The shared pointer to the scratch pool at function exit: handed to the  *)
(* literal if one was constructed, else dropped, which releases the pool.  *)
PoolAtExit(constructed) == IF constructed THEN "literal" ELSE "released"

NoTransform ==
    [on |-> "none", all_literal |-> FALSE, pools |-> 0, pool |-> "none",
     prepared |-> <<>>, initialized |-> <<>>, inits |-> 0, evals |-> 0,
     my |-> NodeEvalState, replaced |-> <<>>, base_calls |-> 0,
     result |-> FALSE, raised |-> FALSE, abort |-> FALSE, index |-> <<>>,
     slots |-> {}, reads |-> {}]

(* Call::transform.  idx: the node indices before the call.  fails: the    *)
(* prepare hook raises.                                                    *)
Call_transform(c, idx, fails) ==
    IF ~AllLiteral(c)
    THEN [NoTransform EXCEPT !.on = "call", !.index = KeepsIndices(c, idx),
                             !.base_calls = 1, !.result = Base_transform(c)]
    ELSE LET idx1 == FoldIndices(c)
             calls == FoldInitCalls(c, 1, {})
             slots == FoldGes(c, idx1, calls)
             view == FoldView(c, idx1, slots)
             t1 == [NoTransform EXCEPT !.on = "call", !.all_literal = TRUE,
                                       !.index = idx1, !.initialized = calls,
                                       !.slots = FoldSlots(c, slots),
                                       !.pools = 1, !.pool = "alive",
                                       !.prepared = <<prepare_call(c)>>]
             m == Call_eval_calculate(c, FoldMachine(c, Call_eval_initialize(c)), view)
             t2 == [t1 EXCEPT !.inits = 1, !.evals = 1, !.my = m.my,
                              !.slots = @ \cup {idx1[0]},
                              !.reads = FoldReads(c, idx1)]
         IN IF fails
            THEN [t1 EXCEPT !.raised = TRUE, !.pool = PoolAtExit(FALSE)]
            ELSE IF m.abort THEN [t2 EXCEPT !.abort = TRUE]
            ELSE IF FoldFinished(m.my)
            THEN [t2 EXCEPT !.replaced = <<[old |-> "call",
                                           new |-> ReplacementLiteral(m.my)]>>,
                            !.pool = PoolAtExit(TRUE), !.result = TRUE]
            ELSE [t2 EXCEPT !.pool = PoolAtExit(FALSE), !.base_calls = 1,
                            !.result = UnfinishedResult(c)]

(* Mutant: the literal is folded once more. *)
Other_transform_Refold(idx) ==
    [NoTransform EXCEPT !.on = "other", !.index = idx, !.result = TRUE,
                        !.replaced = <<[old |-> "literal", new |-> Null]>>]

(* transform of a node that is not a Functional call (a literal, or the    *)
(* node a Base::transform put in place): nothing to rewrite.               *)
Other_transform(idx) == [NoTransform EXCEPT !.on = "other", !.index = idx]

(* index: the index each node holds now, by child position (0: the call). *)
NoComp ==
    [pre |-> NoReport, post |-> NoReport, t |-> NoTransform,
     graph |-> "call", literal |-> Null, replaces |-> 0, index |-> <<>>]

(* The final indexing of the evaluation context: every distinct node gets  *)
(* one index, the indices are contiguous from 0.                           *)
FinalIndices(c) ==
    [p \in 0..NumChildren(c) |->
        IF p = 0 THEN 0
        ELSE Cardinality({NodeOf(c, q) : q \in 1..p})]

NoTx == [phase |-> "uninit", ges |-> <<>>, state |-> <<>>, log |-> <<>>,
         raised |-> FALSE, abort |-> FALSE]

(* A MemoryPoolLite after create: no cleanup registered, none invoked.      *)
(* registered: the cleanup functions in registration order; invoked: the   *)
(* registrations (by position) whose function has been called, in order.   *)
NoPool == [status |-> "alive", registered |-> <<>>, invoked |-> <<>>]

(* The result of ib_strstr: NULL, or a pointer at an offset into haystack. *)
StrNull == [null |-> TRUE, offset |-> 0]

StrAt(k) == [null |-> FALSE, offset |-> k]

(* No ib_strstr call made.  reads: the haystack offsets dereferenced. *)
NoStr ==
    [pc |-> "idle", haystack |-> <<>>, haystack_len |-> 0, needle |-> <<>>,
     needle_len |-> 0, i |-> 0, j |-> 0, imax |-> 0, found |-> FALSE,
     result |-> StrNull, reads |-> {}]

NoOp == [op |-> "none", raised |-> FALSE, abort |-> FALSE, validated |-> <<>>,
         evaled |-> FALSE, primary_called |-> FALSE, sec |-> <<>>,
         prim |-> NodeEvalState, pre |-> NodeEvalState,
         ready_calls |-> 0, readied |-> FALSE, failure |-> 0, again |-> FALSE]

Init ==
    /\ call \in AllCalls
    /\ ges = [i \in 0..NumChildren(call) |-> NodeEvalState]
    /\ state = [unfinished |-> <<>>, each |-> each_state_t]
    /\ log = <<>>
    /\ readied = FALSE
    /\ last = NoOp
    /\ phase = "new"
    /\ extra = 0
    /\ comp = [NoComp EXCEPT !.t.index = [p \in 0..NumChildren(call) |-> -1],
                             !.index = [p \in 0..NumChildren(call) |-> -1]]
    /\ other = NoTx
    /\ pool = NoPool
    /\ str = NoStr

(* The host goes on with a graph only while the reporter holds no error. *)
Validated == comp.pre.errors = <<>>
Compiled == comp.post.errors = <<>>

(* The validation pass before transformation. *)
PreTransform ==
    /\ phase = "new"
    /\ comp' = [comp EXCEPT !.pre = Call_pre_transform(call)]
    /\ phase' = IF comp'.pre.raised THEN "failed" ELSE "pre_transformed"
    /\ UNCHANGED <<call, ges, state, log, readied, last, extra, other, pool, str>>

(* What one transform call leaves in the merge graph and in the phase. *)
Transformed(t) ==
    /\ comp' = [comp EXCEPT
                   !.t = t,
                   !.index = t.index,
                   !.replaces = @ + Len(t.replaced),
                   !.graph = IF t.replaced # <<>> THEN "literal"
                             ELSE IF t.result THEN "rewritten" ELSE @,
                   !.literal = IF t.replaced # <<>> THEN t.replaced[1].new ELSE @]
    /\ phase' = IF t.abort THEN "crashed"
                ELSE IF t.raised THEN "failed" ELSE "transformed"
    /\ UNCHANGED <<call, ges, state, log, readied, last, extra, other, pool, str>>

(* The transform pass reaches the call node; it runs only on graphs whose  *)
(* validation reported no error.                                           *)
Transform ==
    /\ phase = "pre_transformed"
    /\ Validated
    /\ \E fails \in BOOLEAN :
          /\ fails => AllLiteral(call)
          /\ Transformed(Call_transform(call, comp.index, fails))

(* The pass is repeated as long as it reports a rewrite; by then the       *)
(* merge graph holds the replacement in place of the call.                 *)
TransformAgain ==
    /\ phase = "transformed"
    /\ comp.t.result
    /\ Transformed(Other_transform(comp.index))

(* The validation pass after transformation. *)
PostTransform ==
    /\ phase = "transformed"
    /\ ~comp.t.result
    /\ comp' = [comp EXCEPT !.post = Call_post_transform(call)]
    /\ phase' = IF comp'.post.raised THEN "failed" ELSE "post_transformed"
    /\ UNCHANGED <<call, ges, state, log, readied, last, extra, other, pool, str>>

(* The finalize pass over the compiled graph assigns the node indices. *)
Finalize ==
    /\ phase = "post_transformed"
    /\ Compiled
    /\ comp' = [comp EXCEPT !.index = FinalIndices(call)]
    /\ phase' = "uninit"
    /\ UNCHANGED <<call, ges, state, log, readied, last, extra, other, pool, str>>

(* GraphEvalState::initialize of every node of the graph: a literal is     *)
(* finished with its value at once, the call gets its call_state_t.        *)
GraphInitialize ==
    /\ phase = "uninit"
    /\ Compiled
    /\ ges' = [i \in 0..NumChildren(call) |->
                 IF i > 0 /\ call.children[i].literal
                 THEN finish_value(NodeEvalState, call.children[i].value)
                 ELSE NodeEvalState]
    /\ state' = Call_eval_initialize(call)
    /\ phase' = "running"
    /\ last' = [NoOp EXCEPT !.op = "eval_initialize"]
    /\ UNCHANGED <<call, log, readied, extra, comp, other, pool, str>>

IsPrimary(p) == call.kind \in {"Map", "Filter", "Selector"} /\ p = NumChildren(call)

(* An upstream (non-literal) child node makes progress. A secondary or a   *)
(* Simple argument finishes with a scalar or Null; a primary may hold a    *)
(* scalar, or a local list that grows until the node finishes.             *)
ChildStep(p) ==
    /\ phase = "running"
    /\ ~last.abort
    /\ ~call.children[p].literal
    /\ ~ges[p].finished
    /\ \/ /\ is_null(ges[p].value)
          /\ \E v \in Scalars \cup {Null} :
                ges' = [ges EXCEPT ![p] = finish_value(@, v)]
       \/ /\ IsPrimary(p)
          /\ is_null(ges[p].value)
          /\ \E v \in Scalars :
                ges' = [ges EXCEPT ![p].value = v]
       \/ /\ IsPrimary(p)
          /\ is_null(ges[p].value)
          /\ ges' = [ges EXCEPT ![p] = setup_local_list(@)]
       \/ /\ IsPrimary(p)
          /\ ges[p].local
          /\ Len(ges[p].value.l) < MaxLen
          /\ \E v \in Scalars :
                ges' = [ges EXCEPT ![p] = append_to_list(@, v)]
       \/ /\ IsPrimary(p)
          /\ ~is_null(ges[p].value)
          /\ ges' = [ges EXCEPT ![p] = finish(@)]
    /\ last' = [NoOp EXCEPT !.op = "child", !.failure = last.failure]
    /\ UNCHANGED <<call, state, log, readied, phase, extra, comp, other, pool, str>>

(* node: the Call node and its Base as the operation finds them; they are *)
(* shared by every transaction.                                            *)
Machine ==
    [my |-> ges[0], unfinished |-> state.unfinished, each |-> state.each,
     log |-> log, ready_calls |-> 0, raised |-> FALSE, abort |-> FALSE,
     validated |-> <<>>, evaled |-> FALSE, primary_called |-> FALSE,
     sec |-> <<>>, prim |-> NodeEvalState, node |-> call]

(* One Call::eval_calculate on the call node, with its effects stored. *)
Calculate ==
    \E m \in {Call_eval_calculate(call, Machine, ges)} :
    /\ ges' = [ges EXCEPT ![0] = m.my]
    /\ state' = [unfinished |-> m.unfinished, each |-> m.each]
    /\ log' = m.log
    /\ readied' = (readied \/ m.ready_calls > 0)
    /\ last' = [op |-> "eval_calculate", raised |-> m.raised, abort |-> m.abort,
                validated |-> m.validated, evaled |-> m.evaled,
                primary_called |-> m.primary_called, sec |-> m.sec,
                prim |-> m.prim, pre |-> ges[0],
                ready_calls |-> m.ready_calls, readied |-> readied,
                failure |-> IF m.raised
                            THEN m.validated[Len(m.validated)][1]
                            ELSE last.failure,
                again |-> m.raised /\ last.failure # 0]
    /\ call' = m.node
    /\ UNCHANGED <<phase, comp, other, pool, str>>

(* GraphEvalState::eval: the host calculates a node that is not finished. *)
EvalCalculate ==
    /\ phase = "running"
    /\ ~last.abort
    /\ ~ges[0].finished
    /\ Calculate
    /\ UNCHANGED extra

(* eval_calculate called directly on the call node after it finished. *)
EvalCalculateFinished ==
    /\ phase = "running"
    /\ ~last.abort
    /\ ges[0].finished
    /\ extra < MaxReinvoke
    /\ Calculate
    /\ extra' = extra + 1

Next ==
    \/ PreTransform
    \/ Transform
    \/ TransformAgain
    \/ PostTransform
    \/ Finalize
    \/ GraphInitialize
    \/ \E p \in 1..NumChildren(call) : ChildStep(p)
    \/ EvalCalculate

Spec == Init /\ [][Next]_vars

NextReinvoke ==
    \/ Next
    \/ EvalCalculateFinished

SpecReinvoke == Init /\ [][NextReinvoke]_vars

(* The calls of the fair specification: functions without static          *)
(* arguments that accept every argument, one pass set per predicate, and   *)
(* a filter that finishes early on no element or on 2.                     *)
FairCalls ==
    {c \in AllCalls :
        /\ c.reject = 0
        /\ c.num_static_args = 0
        /\ c.kind \in {"Filter", "Selector"} => c.pass = {1}
        /\ c.early \in {0, 2}}

InitFair == Init /\ call \in FairCalls

(* Some unfinished argument node makes progress. *)
ChildProgress == \E p \in 1..NumChildren(call) : ChildStep(p)

(* Fair re-invocation: the host keeps calculating the unfinished call node *)
(* and every argument node keeps making progress until it is finished.     *)
SpecFair ==
    /\ InitFair
    /\ [][Next]_vars
    /\ WF_vars(EvalCalculate)
    /\ WF_vars(ChildProgress)

(***************************************************************************)
(* Two transactions on one graph.  The first transaction is the one of     *)
(* Spec; the second has a GraphEvalState of its own (other) over the same  *)
(* call node and Base, with argument nodes that progress independently.    *)
(***************************************************************************)
TwoCalls ==
    {c \in AllCalls :
        /\ c.reject = 1
        /\ c.num_static_args = 0
        /\ NumChildren(c) <= 1
        /\ ~c.shared /\ ~c.rewrites
        /\ c.kind \in {"Filter", "Selector"} => c.pass = {1}
        /\ c.early \in {0, 2}}

InitTwo == Init /\ call \in TwoCalls

(* The second transaction's GraphEvalState::initialize. *)
OtherInitialize ==
    /\ phase \in {"uninit", "running"}
    /\ Compiled
    /\ other.phase = "uninit"
    /\ other' = [NoTx EXCEPT
                    !.phase = "running",
                    !.ges = [i \in 0..NumChildren(call) |->
                               IF i > 0 /\ call.children[i].literal
                               THEN finish_value(NodeEvalState, call.children[i].value)
                               ELSE NodeEvalState],
                    !.state = Call_eval_initialize(call)]
    /\ UNCHANGED <<call, ges, state, log, readied, last, phase, extra, comp, pool, str>>

(* The states an unfinished argument node can move to in one step. *)
ChildMoves(c, ns, primary) ==
    (IF is_null(ns.value)
     THEN {finish_value(ns, v) : v \in Scalars \cup {Null}} ELSE {})
    \cup
    (IF primary /\ is_null(ns.value)
     THEN {[ns EXCEPT !.value = v] : v \in Scalars} \cup {setup_local_list(ns)}
     ELSE {})
    \cup
    (IF primary /\ ns.local /\ Len(ns.value.l) < MaxLen
     THEN {append_to_list(ns, v) : v \in Scalars} ELSE {})
    \cup
    (IF primary /\ ~is_null(ns.value) THEN {finish(ns)} ELSE {})

(* An argument node makes progress in the second transaction. *)
OtherChildStep(p) ==
    /\ other.phase = "running"
    /\ ~other.abort
    /\ ~call.children[p].literal
    /\ ~other.ges[p].finished
    /\ \E ns \in ChildMoves(call, other.ges[p], IsPrimary(p)) :
          other' = [other EXCEPT !.ges[p] = ns]
    /\ UNCHANGED <<call, ges, state, log, readied, last, phase, extra, comp, pool, str>>

OtherMachine ==
    [my |-> other.ges[0], unfinished |-> other.state.unfinished,
     each |-> other.state.each, log |-> other.log, ready_calls |-> 0,
     raised |-> FALSE, abort |-> FALSE, validated |-> <<>>, evaled |-> FALSE,
     primary_called |-> FALSE, sec |-> <<>>, prim |-> NodeEvalState,
     node |-> call]

(* One Call::eval_calculate of the second transaction. *)
OtherCalculate ==
    /\ other.phase = "running"
    /\ ~other.abort
    /\ ~other.ges[0].finished
    /\ \E m \in {Call_eval_calculate(call, OtherMachine, other.ges)} :
          /\ other' = [other EXCEPT
                          !.ges[0] = m.my,
                          !.state = [unfinished |-> m.unfinished, each |-> m.each],
                          !.log = m.log,
                          !.raised = m.raised,
                          !.abort = m.abort]
          /\ call' = m.node
    /\ UNCHANGED <<ges, state, log, readied, last, phase, extra, comp, pool, str>>

OtherNext ==
    \/ OtherInitialize
    \/ \E p \in 1..NumChildren(call) : OtherChildStep(p)
    \/ OtherCalculate

NextTwo ==
    \/ Next
    \/ OtherInitialize
    \/ \E p \in 1..NumChildren(call) : OtherChildStep(p)
    \/ OtherCalculate

SpecTwo == InitTwo /\ [][NextTwo]_vars

(***************************************************************************)
(* The memory pool behind a MemoryManager (test_memory_manager.cpp,        *)
(* Callback): cleanups are registered through the manager while the pool   *)
(* is alive; destroy calls the registered cleanups, in an order the        *)
(* interface does not fix, and returns when none is left.                  *)
(***************************************************************************)
MaxCleanups == 3

CleanupFns == {"test_callback", "other_callback"}

(* MemoryManager::register_cleanup. *)
register_cleanup(p, f) == [p EXCEPT !.registered = Append(@, f)]

(* The registrations whose cleanup has not been called. *)
PendingCleanups(p) ==
    {k \in 1..Len(p.registered) : \A i \in 1..Len(p.invoked) : p.invoked[i] # k}

(* Mutant: destroy returns although cleanups are pending. *)
DestroyReturns_Early(p) == TRUE

(* MemoryPoolLite::destroy returns once every cleanup was called. *)
DestroyReturns(p) == PendingCleanups(p) = {}

PoolCalls == {c \in TwoCalls : NumChildren(c) = 0 /\ c.kind = "Simple"}

InitPool == Init /\ call \in PoolCalls

RegisterCleanup ==
    /\ pool.status = "alive"
    /\ Len(pool.registered) < MaxCleanups
    /\ \E f \in CleanupFns : pool' = register_cleanup(pool, f)
    /\ UNCHANGED <<call, ges, state, log, readied, last, phase, extra, comp, other, str>>

(* mpl.destroy() is entered. *)
DestroyPool ==
    /\ pool.status = "alive"
    /\ pool' = [pool EXCEPT !.status = "destroying"]
    /\ UNCHANGED <<call, ges, state, log, readied, last, phase, extra, comp, other, str>>

(* destroy calls one pending cleanup. *)
InvokeCleanup ==
    /\ pool.status = "destroying"
    /\ \E k \in PendingCleanups(pool) :
          pool' = [pool EXCEPT !.invoked = Append(@, k)]
    /\ UNCHANGED <<call, ges, state, log, readied, last, phase, extra, comp, other, str>>

(* mpl.destroy() returns. *)
DestroyReturn ==
    /\ pool.status = "destroying"
    /\ DestroyReturns(pool)
    /\ pool' = [pool EXCEPT !.status = "destroyed"]
    /\ UNCHANGED <<call, ges, state, log, readied, last, phase, extra, comp, other, str>>

NextPool ==
    \/ RegisterCleanup
    \/ DestroyPool
    \/ InvokeCleanup
    \/ DestroyReturn

SpecPool == InitPool /\ [][NextPool]_vars

(***************************************************************************)
(* ib_strstr (util/string.c), one statement group per step.  The buffers   *)
(* may be longer than the lengths passed; a read past the end of a buffer  *)
(* yields any byte.                                                        *)
(***************************************************************************)
MaxHaystack == 4
MaxNeedle == 2

Bytes == {"a", "b"}

Buffers(n) == UNION {[1..k -> Bytes] : k \in 0..n}

(* The byte at a 0-based offset of a buffer. *)
ByteAt(buf, off) == IF off < Len(buf) THEN {buf[off + 1]} ELSE Bytes

(* The check that returns NULL before the search. *)
StrNothingToFind(hlen, nlen) == hlen = 0 \/ nlen = 0 \/ hlen < nlen

(* Mutant: every haystack offset starts a comparison. *)
StrImax_Whole(hlen, nlen) == hlen

(* imax = haystack_len - (needle_len-1) *)
StrImax(hlen, nlen) == hlen - (nlen - 1)

(* ib_strstr is called: the NULL checks and the set-up of the search. *)
StrCall ==
    /\ str.pc = "idle"
    /\ \E h \in Buffers(MaxHaystack), nd \in Buffers(MaxNeedle) :
       \E hlen \in 0..Len(h), nlen \in 0..Len(nd) :
          str' = IF StrNothingToFind(hlen, nlen)
                 THEN [NoStr EXCEPT !.pc = "done", !.haystack = h,
                                    !.haystack_len = hlen, !.needle = nd,
                                    !.needle_len = nlen, !.result = StrNull]
                 ELSE [NoStr EXCEPT !.pc = "outer", !.haystack = h,
                                    !.haystack_len = hlen, !.needle = nd,
                                    !.needle_len = nlen,
                                    !.imax = StrImax(hlen, nlen)]
    /\ UNCHANGED <<call, ges, state, log, readied, last, phase, extra, comp, other, pool>>

(* for (i = 0; i < imax; ++i): the loop test and the body's set-up. *)
StrOuter ==
    /\ str.pc = "outer"
    /\ str' = IF str.i < str.imax
              THEN [str EXCEPT !.pc = "inner", !.found = TRUE, !.j = 0]
              ELSE [str EXCEPT !.pc = "done", !.result = StrNull]
    /\ UNCHANGED <<call, ges, state, log, readied, last, phase, extra, comp, other, pool>>

(* for (j = 0; j < needle_len; ++j): one comparison, or the loop's end. *)
StrInner ==
    /\ str.pc = "inner"
    /\ IF str.j < str.needle_len
       THEN \E hb \in ByteAt(str.haystack, str.i + str.j),
               nb \in ByteAt(str.needle, str.j) :
               str' = IF hb # nb
                      THEN [str EXCEPT !.reads = @ \cup {str.i + str.j},
                                       !.found = FALSE, !.pc = "found"]
                      ELSE [str EXCEPT !.reads = @ \cup {str.i + str.j},
                                       !.j = @ + 1]
       ELSE str' = [str EXCEPT !.pc = "found"]
    /\ UNCHANGED <<call, ges, state, log, readied, last, phase, extra, comp, other, pool>>

(* if (found) return hp; else the next i. *)
StrFound ==
    /\ str.pc = "found"
    /\ str' = IF str.found
              THEN [str EXCEPT !.pc = "done", !.result = StrAt(str.i)]
              ELSE [str EXCEPT !.pc = "outer", !.i = @ + 1]
    /\ UNCHANGED <<call, ges, state, log, readied, last, phase, extra, comp, other, pool>>

InitStr == Init /\ call \in PoolCalls

NextStr ==
    \/ StrCall
    \/ StrOuter
    \/ StrInner
    \/ StrFound

SpecStr == InitStr /\ [][NextStr]_vars

(***************************************************************************)
(* Vocabulary of the properties.                                           *)
(***************************************************************************)
N == NumChildren(call)
EachFamily == call.kind \in {"Map", "Filter", "Selector"}
ListPrimary == EachFamily /\ N >= 1 /\ is_list(ges[N].value)
PrimaryList == ges[N].value.l

Logged(op) == SelectSeq(log, LAMBDA e : e.op = op)
Subvalues(op) == [i \in 1..Len(Logged(op)) |-> Logged(op)[i].v]
IsPrefix(s, t) == Len(s) <= Len(t) /\ s = SubSeq(t, 1, Len(s))

Calculated == last.op = "eval_calculate"
(* The most recent step was an eval_calculate call whose argument          *)
(* validation passed and whose secondary arguments were all finished.      *)
SecondariesFinished ==
    \A p \in 1..N : (p > call.num_static_args /\ p < N) => ges[p].finished
CalculatedPrimary ==
    Calculated /\ ~last.raised /\ EachFamily /\ N >= 1 /\ SecondariesFinished

Passes(v) == v.n \in call.pass
EarlyFinishes(v) == v.n = call.early

(* Index of the first element of l that the predicate passes, 0 if none. *)
FirstPass(l) ==
    IF \E i \in 1..Len(l) : Passes(l[i])
    THEN CHOOSE i \in 1..Len(l) :
            Passes(l[i]) /\ \A j \in 1..(i - 1) : ~Passes(l[j])
    ELSE 0

(***************************************************************************)
(* C1. Monotonicity: once the call node's NodeEvalState is finished, no    *)
(* step, in particular no further eval_calculate call on the node, changes *)
(* its value or its finished flag.                                         *)
(***************************************************************************)
C1_Monotonicity ==
    [][ges[0].finished =>
          (ges'[0].finished /\ ges'[0].value = ges[0].value)]_vars

(* A finished Each-family node is calculated again while its primary list  *)
(* holds elements it has not consumed.                                     *)
C1_Witness ==
    /\ extra > 0
    /\ Calculated /\ last.primary_called /\ last.pre.finished
    /\ ListPrimary
    /\ Len(PrimaryList) > Len(Subvalues("eval_each"))
    /\ ges[0].finished

(***************************************************************************)
(* C2. Cursor monotonicity: over a list primary, the subvalues passed to   *)
(* eval_each over all calls are the primary list's elements in list order, *)
(* each passed once (a prefix of the list at any time, the whole list      *)
(* after a call unless an element finished the node), and last_subvalue    *)
(* never decreases.                                                        *)
(***************************************************************************)
C2_CursorOrder ==
    /\ [](ListPrimary =>
            LET E == Subvalues("eval_each") IN
            /\ IsPrefix(E, PrimaryList)
            /\ state.each.last_subvalue <= Len(E)
            /\ Len(E) <= state.each.last_subvalue + 1
            /\ Len(E) = state.each.last_subvalue + 1 => ges[0].finished
            /\ CalculatedPrimary => (E = PrimaryList \/ ges[0].finished)
            /\ (CalculatedPrimary /\ call.kind = "Map") => E = PrimaryList)
    /\ [][state'.each.last_subvalue >= state.each.last_subvalue]_vars

(* A Map node consumed elements in an earlier call and more in this one. *)
C2_Witness ==
    /\ call.kind = "Map" /\ ListPrimary /\ Calculated
    /\ Len(last.pre.value.l) >= 1
    /\ Len(ges[0].value.l) > Len(last.pre.value.l)
    /\ Subvalues("eval_each") = PrimaryList
    /\ Len(PrimaryList) = MaxLen

(***************************************************************************)
(* C3. Selector first match: over a list primary, eval_selector is invoked *)
(* on the elements in order up to the first one it passes and on none      *)
(* after it, in this or any later call, and the node finishes with that    *)
(* first passing element.                                                  *)
(***************************************************************************)
C3_SelectorFirstMatch ==
    (call.kind = "Selector" /\ ListPrimary) =>
        LET E == Subvalues("eval_selector")
            k == FirstPass(PrimaryList)
        IN /\ IsPrefix(E, PrimaryList)
           /\ k > 0 => Len(E) <= k
           /\ ~is_null(ges[0].value) =>
                 (k > 0 /\ Len(E) = k /\ ges[0].finished
                    /\ ges[0].value = PrimaryList[k])
           /\ (CalculatedPrimary /\ k > 0) =>
                 (ges[0].finished /\ ges[0].value = PrimaryList[k])

(* The first element failed, the second passed and finished the node, a    *)
(* third element is in the list, and the node was calculated again.        *)
C3_Witness ==
    /\ call.kind = "Selector" /\ ListPrimary
    /\ Len(PrimaryList) = 3
    /\ FirstPass(PrimaryList) = 2
    /\ ges[0].finished /\ ges[0].value = PrimaryList[2]
    /\ Len(Subvalues("eval_selector")) = 2
    /\ extra > 0 /\ Calculated /\ last.primary_called

(***************************************************************************)
(* C4. Filter early finish: over a list primary, an element for which      *)
(* eval_filter sets early_finish is the last one eval_filter is ever       *)
(* invoked on, and the node is finished from then on, also while the       *)
(* primary list is open and holds further elements.                        *)
(***************************************************************************)
C4_FilterEarlyFinish ==
    (call.kind = "Filter" /\ ListPrimary) =>
        LET E == Subvalues("eval_filter")
        IN /\ IsPrefix(E, PrimaryList)
           /\ \A i \in 1..Len(E) :
                 EarlyFinishes(E[i]) => (i = Len(E) /\ ges[0].finished)

(* Early finish on an open primary that holds a further element, and the   *)
(* finished node calculated again.                                         *)
C4_Witness ==
    /\ call.kind = "Filter" /\ ListPrimary
    /\ ~ges[N].finished
    /\ Subvalues("eval_filter") # <<>>
    /\ EarlyFinishes(Subvalues("eval_filter")[Len(Subvalues("eval_filter"))])
    /\ Len(PrimaryList) > Len(Subvalues("eval_filter"))
    /\ ges[0].finished
    /\ extra > 0 /\ Calculated /\ last.primary_called

(***************************************************************************)
(* C5. Filter output: the output list of a Filter node over a list primary *)
(* always holds, in order, the elements eval_filter passed; after every    *)
(* eval_calculate call that reaches eval_primary these are the passing     *)
(* elements of everything delivered so far (or up to the early-finishing   *)
(* element), and the node is finished exactly if the primary is finished   *)
(* or early_finish was signalled.                                          *)
(***************************************************************************)
C5_FilterOutput ==
    (call.kind = "Filter" /\ ListPrimary) =>
        LET E == Subvalues("eval_filter")
            early == \E i \in 1..Len(E) : EarlyFinishes(E[i])
        IN /\ ges[0].local => ges[0].value = List(SelectSeq(E, Passes))
           /\ ~ges[0].local => (E = <<>> /\ is_null(ges[0].value))
           /\ CalculatedPrimary =>
                 /\ ges[0].local
                 /\ ~early => E = PrimaryList
                 /\ ges[0].finished <=> (ges[N].finished \/ early)

(* 1 then 2 delivered one at a time to an is_even-like filter: the output  *)
(* is [2] and the node is unfinished.                                      *)
C5_Witness ==
    /\ call.kind = "Filter" /\ ListPrimary /\ CalculatedPrimary
    /\ call.pass = {2} /\ call.early = 0
    /\ PrimaryList = <<Num(1), Num(2)>>
    /\ ~ges[N].finished /\ ~ges[0].finished
    /\ last.pre.local /\ last.pre.value = List(<<>>)
    /\ ges[0].value = List(<<Num(2)>>)

(***************************************************************************)
(* C6. Map output: a finished Map node over a list primary holds a list of *)
(* the primary's length whose i-th element is eval_map of the primary's    *)
(* i-th element; over a scalar primary it holds eval_map of that value.    *)
(***************************************************************************)
SecondaryValues ==
    [i \in 1..(N - 1 - call.num_static_args) |->
        ges[call.num_static_args + i].value]

C6_MapOutput ==
    (call.kind = "Map" /\ N >= 1 /\ ges[0].finished) =>
        LET pv == ges[N].value IN
        /\ is_list(pv) =>
              ges[0].value =
                 List([i \in 1..Len(pv.l) |->
                         eval_map(call, SecondaryValues, pv.l[i])])
        /\ (~is_list(pv) /\ ~is_null(pv)) =>
              ges[0].value = eval_map(call, SecondaryValues, pv)

(* A Map without secondaries over a primary list that grew at run time to  *)
(* MaxLen elements: finished, with the doubled elements.                   *)
C6_Witness ==
    /\ call.kind = "Map" /\ ListPrimary /\ ges[0].finished
    /\ ~call.children[N].literal
    /\ N = call.num_static_args + 1
    /\ Len(PrimaryList) = MaxLen
    /\ PrimaryList[1] = Num(1) /\ PrimaryList[2] = Num(2)
    /\ ges[0].value.l[1] = Num(2) /\ ges[0].value.l[2] = Num(4)
    /\ Len(ges[0].value.l) = MaxLen

(***************************************************************************)
(* C7. Null primary: while the primary's value is Null, ready and          *)
(* eval_each have not been called; the node is unfinished while the        *)
(* primary is unfinished, and a call that reaches eval_primary after the   *)
(* primary finished as Null leaves the node finished with Null.            *)
(***************************************************************************)
C7_NullPrimary ==
    (EachFamily /\ N >= 1 /\ is_null(ges[N].value)) =>
        /\ ~readied
        /\ Logged("eval_each") = <<>>
        /\ is_null(ges[0].value)
        /\ ~ges[N].finished => ~ges[0].finished
        /\ (CalculatedPrimary /\ ges[N].finished) => ges[0].finished

(* The node was calculated while the Null primary was open (and stayed     *)
(* running), the primary then finished as Null, and this call finished it. *)
C7_Witness ==
    /\ EachFamily /\ N >= 1 /\ is_null(ges[N].value) /\ ges[N].finished
    /\ ~call.children[N].literal
    /\ Calculated /\ last.primary_called /\ ~last.pre.finished
    /\ ges[0].finished /\ is_null(ges[0].value)

(***************************************************************************)
(* C8. Simple: a call made while a dynamic child is unfinished leaves the  *)
(* node's NodeEvalState as it was and does not call eval_simple; eval_simple*)
(* runs at most once in a transaction, in the call (with validation        *)
(* passed) made when all dynamic children are finished, and that call      *)
(* finishes the node with eval_simple's result.                            *)
(***************************************************************************)
C8_SimpleOnce ==
    call.kind = "Simple" =>
        LET calls == Logged("eval_simple")
            unfinishedDynamic ==
                \E p \in 1..N : p > call.num_static_args /\ ~ges[p].finished
        IN /\ Len(calls) <= 1
           /\ ges[0].finished <=> Len(calls) = 1
           /\ ges[0].finished =>
                 ges[0].value = eval_simple(call, calls[1].args)
           /\ unfinishedDynamic =>
                 /\ ~ges[0].finished
                 /\ Calculated => ges[0] = last.pre
           /\ (Calculated /\ ~last.raised /\ ~unfinishedDynamic) =>
                 ges[0].finished

(* Two run-time arguments: this call found both finished and finished the  *)
(* node.                                                                   *)
C8_Witness ==
    /\ call.kind = "Simple" /\ call.num_dynamic_args = 2
    /\ \A p \in 1..N : p > call.num_static_args => ~call.children[p].literal
    /\ Calculated /\ ~last.pre.finished /\ ges[0].finished
    /\ Len(Logged("eval_simple")) = 1

(***************************************************************************)
(* C9. Primary: eval_primary is invoked in an eval_calculate call only if  *)
(* every secondary child is finished; it is given their values in position *)
(* order and the NodeEvalState of the last child, finished or not; with an *)
(* unfinished secondary the call leaves the node's NodeEvalState unchanged.*)
(***************************************************************************)
C9_PrimarySecondaries ==
    (EachFamily /\ Calculated) =>
        /\ last.primary_called =>
              /\ N >= 1
              /\ SecondariesFinished
              /\ last.sec = SecondaryValues
              /\ last.prim = ges[N]
        /\ ~SecondariesFinished =>
              (~last.primary_called /\ ges[0] = last.pre)

(* One static, one secondary and an unfinished primary with an element. *)
C9_Witness ==
    /\ EachFamily /\ Calculated /\ last.primary_called
    /\ call.num_static_args = 1 /\ N = 3
    /\ ~call.children[2].literal
    /\ last.sec = <<Num(2)>>
    /\ ~last.prim.finished /\ is_list(last.prim.value)
    /\ Len(last.prim.value.l) >= 1

(***************************************************************************)
(* C10. Finished primary: an eval_primary run with a finished primary      *)
(* leaves the node finished; unless an element finished it, its value is   *)
(* then Null or its local list (finish() was given no value); eval_each is *)
(* never called for an empty primary list.                                 *)
(***************************************************************************)
ElementFinishes(sub, pv) ==
    CASE call.kind = "Map" -> ~is_list(pv)
      [] call.kind = "Filter" -> ~is_list(pv) \/ EarlyFinishes(sub)
      [] OTHER -> Passes(sub)

C10_FinishedPrimary ==
    /\ (ListPrimary /\ PrimaryList = <<>>) => Logged("eval_each") = <<>>
    /\ (EachFamily /\ Calculated /\ last.primary_called /\ last.prim.finished) =>
          LET E == Subvalues("eval_each") IN
          /\ ges[0].finished
          /\ (~last.pre.finished
                /\ (E = <<>> \/ ~ElementFinishes(E[Len(E)], last.prim.value))) =>
                (ges[0].local \/ is_null(ges[0].value))

(* A Selector exhausts a finished two-element list without a match. *)
C10_Witness ==
    /\ call.kind = "Selector" /\ ListPrimary
    /\ Calculated /\ last.primary_called /\ last.prim.finished
    /\ ~last.pre.finished /\ ges[0].finished
    /\ Len(PrimaryList) >= 2
    /\ Len(Subvalues("eval_each")) = Len(PrimaryList)
    /\ FirstPass(PrimaryList) = 0
    /\ is_null(ges[0].value)

(***************************************************************************)
(* C11. Termination under fair re-invocation: a Simple or Each-family node *)
(* in a running transaction eventually is finished, unless an argument     *)
(* fails validate_argument; and a call that passed validation with every   *)
(* argument finished leaves the node finished.                             *)
(***************************************************************************)
ArgumentsFinished == \A p \in 1..N : ges[p].finished

C11_Termination ==
    /\ (phase = "running" /\ call.kind \in Kinds)
          ~> (ges[0].finished \/ last.raised)
    /\ []((call.kind \in Kinds /\ Calculated /\ ~last.raised
              /\ ArgumentsFinished) => ges[0].finished)

(* An Each-family node that an earlier call left unfinished with a list of *)
(* its own is finished by a later call, all arguments being finished.      *)
C11_Witness ==
    /\ EachFamily /\ Calculated /\ ~last.raised
    /\ last.pre.local /\ ~last.pre.finished
    /\ ~call.children[N].literal
    /\ ArgumentsFinished
    /\ ges[0].finished

(***************************************************************************)
(* Vocabulary of the compilation properties.                               *)
(***************************************************************************)
T == comp.t
InTransform == T.on = "call"
FoldAttempt == InTransform /\ AllLiteral(call)
FoldReturned == FoldAttempt /\ ~T.raised /\ ~T.abort
Unindexed == [p \in 0..N |-> -1]
Arity == call.num_static_args + call.num_dynamic_args

(***************************************************************************)
(* C12. Folding correctness: when a call node with only literal children   *)
(* was replaced by a literal, the literal's value is the value the         *)
(* original node has once it is finished in a transaction.                 *)
(***************************************************************************)
C12_FoldValue ==
    (comp.graph = "literal" /\ ges[0].finished) => ges[0].value = comp.literal

(* A folded Each-family node over a shared literal and a literal list has  *)
(* been evaluated to completion in a transaction.                          *)
C12_Witness ==
    /\ comp.graph = "literal" /\ ~is_null(comp.literal)
    /\ EachFamily /\ N = 3 /\ call.shared
    /\ Calculated /\ ges[0].finished

(***************************************************************************)
(* C13. With all children literal, Call::transform replaces the node by a  *)
(* new literal iff the node is finished after one initialize and one eval  *)
(* in the isolated context; then merge_graph.replace is called exactly     *)
(* once, with the original node and a literal holding the computed value,  *)
(* and transform returns true.                                             *)
(***************************************************************************)
C13_FoldIff ==
    (FoldAttempt /\ ~T.raised) =>
        /\ T.inits = 1 /\ T.evals = 1
        /\ (T.replaced # <<>>) <=> T.my.finished
        /\ T.my.finished =>
              /\ T.replaced = <<[old |-> "call", new |-> T.my.value]>>
              /\ T.result
              /\ comp.replaces = 1
              /\ comp.graph = "literal" /\ comp.literal = T.my.value

(* A Simple node with literal arguments has just been folded. *)
C13_Witness ==
    /\ FoldReturned /\ call.kind = "Simple" /\ N >= 2
    /\ T.my.finished /\ T.replaced # <<>> /\ phase = "transformed"

(***************************************************************************)
(* C14. With a non-literal child, Call::transform returns what             *)
(* Base::transform returns (false for the default Base) and does nothing   *)
(* itself: no evaluation, no scratch pool, no node index assigned, no      *)
(* merge_graph.replace.                                                    *)
(***************************************************************************)
C14_NonLiteralFrame ==
    (InTransform /\ ~AllLiteral(call)) =>
        /\ T.result = call.rewrites
        /\ T.base_calls = 1
        /\ T.inits = 0 /\ T.evals = 0 /\ T.initialized = <<>>
        /\ T.prepared = <<>>
        /\ T.pools = 0 /\ T.pool = "none"
        /\ T.index = Unindexed
        /\ T.replaced = <<>> /\ comp.replaces = 0

(* A call with a non-literal child whose Base reports a rewrite of its own. *)
C14_Witness ==
    InTransform /\ ~AllLiteral(call) /\ call.rewrites /\ T.result

(***************************************************************************)
(* C15. With all children literal and the node not finished after the one  *)
(* initialize and eval pass, Call::transform does not replace the node and *)
(* returns what Base::transform returns (false for the default Base); the  *)
(* node stays in the graph for evaluation at run time.                     *)
(***************************************************************************)
C15_UnfinishedFold ==
    (FoldReturned /\ ~T.my.finished) =>
        /\ T.replaced = <<>> /\ comp.replaces = 0
        /\ T.base_calls = 1
        /\ T.result = call.rewrites
        /\ ~call.rewrites => comp.graph = "call"

(* A node with literal children that its first eval leaves unfinished and  *)
(* whose Base has the default transform.                                   *)
C15_Witness ==
    /\ FoldReturned /\ ~T.my.finished /\ N >= 1
    /\ ~call.rewrites /\ ~T.result /\ phase = "transformed"

(***************************************************************************)
(* C16. Each fold attempt creates exactly one scratch pool; when           *)
(* Call::transform has exited, by return or by a raised failure, the pool  *)
(* is alive iff a replacement literal was constructed, which owns it, and  *)
(* has been released otherwise.                                            *)
(***************************************************************************)
C16_PoolOwnership ==
    (FoldAttempt /\ ~T.abort) =>
        /\ T.pools = 1
        /\ T.pool \in {"literal", "released"}
        /\ (T.pool = "literal") <=> (T.replaced # <<>>)
        /\ T.raised => T.pool = "released"

(* The prepare hook raised in a fold attempt. *)
C16_Witness ==
    FoldAttempt /\ T.raised /\ phase = "failed" /\ T.pool = "released"

C18_ArityMismatch ==
    (N # Arity) =>
        /\ phase \in {"new", "pre_transformed"}
        /\ phase = "pre_transformed" =>
              /\ comp.pre.errors = <<<<"n_children", N>>>>
              /\ comp.pre.validated = <<>>
        /\ T = [NoTransform EXCEPT !.index = Unindexed]
        /\ last = NoOp /\ log = <<>>
        /\ \A i \in 0..N : ges[i] = NodeEvalState

(* pre_transform has run on a call with one literal child too many. *)
C18_Witness ==
    /\ N = Arity + 1 /\ phase = "pre_transformed"
    /\ \E p \in 1..N : call.children[p].literal

(***************************************************************************)
(* C19. As stated: the arity of a Primary-family function does not count   *)
(* its primary argument, so a call with S static, D secondary and one      *)
(* primary child (S + D + 1 children) passes the arity validation of       *)
(* pre_transform and is evaluated with exactly D secondary values.         *)
(***************************************************************************)
C19_ArityExcludesPrimary ==
    (EachFamily /\ N = Arity + 1 /\ phase # "new") =>
        /\ comp.pre.errors = <<>>
        /\ last.primary_called => Len(last.sec) = call.num_dynamic_args

(***************************************************************************)
(* C19, amended. The arity num_static_args + num_dynamic_args of a         *)
(* Primary-family function counts its primary argument: a call of a        *)
(* function with D >= 1 passes the arity validation of pre_transform with  *)
(* S static, D - 1 secondary and one primary child (S + D children), and   *)
(* is evaluated with exactly D - 1 secondary values.                       *)
(***************************************************************************)
C19_ArityCountsPrimary ==
    (EachFamily /\ call.num_dynamic_args >= 1 /\ phase # "new") =>
        /\ (N = Arity) <=>
              (\A i \in 1..Len(comp.pre.errors) :
                    comp.pre.errors[i][1] # "n_children")
        /\ last.primary_called =>
              /\ N = Arity
              /\ Len(last.sec) = call.num_dynamic_args - 1
              /\ last.prim = ges[N]

(* A function with two dynamic arguments is evaluated with one secondary   *)
(* value and its last child as the primary.                                *)
C19_Witness ==
    /\ EachFamily /\ call.num_dynamic_args = 2 /\ N = Arity
    /\ Calculated /\ last.primary_called /\ Len(last.sec) = 1

(***************************************************************************)
(* C20. When the arity check passes, pre_transform calls validate_argument *)
(* exactly once for every literal child, with the child's position counted *)
(* from 0 and its literal value, and never for a non-literal child.        *)
(***************************************************************************)
PreValidatedAt(i) ==
    {k \in 1..Len(comp.pre.validated) : comp.pre.validated[k][1] = i}

C20_PreValidation ==
    (N = Arity /\ phase # "new") =>
        /\ \A p \in 1..N :
              IF call.children[p].literal
              THEN /\ Cardinality(PreValidatedAt(p - 1)) = 1
                   /\ \A k \in PreValidatedAt(p - 1) :
                         comp.pre.validated[k][2] = call.children[p].value
              ELSE PreValidatedAt(p - 1) = {}
        /\ \A k \in 1..Len(comp.pre.validated) :
              comp.pre.validated[k][1] \in 0..(N - 1)

(* pre_transform has run on a call with a literal and a non-literal child. *)
C20_Witness ==
    /\ N = Arity /\ phase = "pre_transformed"
    /\ \E p, q \in 1..N : call.children[p].literal /\ ~call.children[q].literal

(***************************************************************************)
(* C21. post_transform calls validate_argument exactly once for every      *)
(* literal child, in a static or a dynamic position, with the child's      *)
(* position counted from 0 and its value, never for a non-literal child,   *)
(* and reports an error for every child in a static position that is not   *)
(* a literal.                                                              *)
(***************************************************************************)
PostTransformed == phase \in {"post_transformed", "uninit", "running"}

PostValidatedAt(i) ==
    {k \in 1..Len(comp.post.validated) : comp.post.validated[k][1] = i}

NotLiteralReportsAt(i) ==
    {k \in 1..Len(comp.post.errors) :
        comp.post.errors[k] = <<"nth_child_is_literal", i>>}

C21_PostValidation ==
    PostTransformed =>
        /\ \A p \in 1..N :
              IF call.children[p].literal
              THEN /\ Cardinality(PostValidatedAt(p - 1)) = 1
                   /\ \A k \in PostValidatedAt(p - 1) :
                         comp.post.validated[k][2] = call.children[p].value
                   /\ NotLiteralReportsAt(p - 1) = {}
              ELSE /\ PostValidatedAt(p - 1) = {}
                   /\ Cardinality(NotLiteralReportsAt(p - 1)) =
                         (IF p <= call.num_static_args THEN 1 ELSE 0)
        /\ \A k \in 1..Len(comp.post.validated) :
              comp.post.validated[k][1] \in 0..(N - 1)

(* post_transform has run on a call whose static argument is not a literal *)
(* and whose dynamic arguments are a literal and a non-literal.            *)
C21_Witness ==
    /\ phase = "post_transformed" /\ N = 3 /\ call.num_static_args = 1
    /\ ~call.children[1].literal
    /\ \E p, q \in 2..N : call.children[p].literal /\ ~call.children[q].literal

(***************************************************************************)
(* C22. Compile-time validation never raises: pre_transform and            *)
(* post_transform return normally whatever the number of failing checks,   *)
(* every failing check adds one record to the reporter, and the node and   *)
(* the graph are left as they were.                                        *)
(***************************************************************************)
FailingLiterals ==
    {p \in 1..N : /\ call.children[p].literal
                  /\ ~validate_argument(call, p - 1, call.children[p].value)}

NonLiteralStatics ==
    {p \in 1..N : p <= call.num_static_args /\ ~call.children[p].literal}

ValidationFrame ==
    /\ call' = call
    /\ comp'.graph = comp.graph /\ comp'.literal = comp.literal
    /\ comp'.replaces = comp.replaces
    /\ comp'.index = comp.index /\ comp'.t = comp.t

C22_ValidationReturns ==
    /\ [](phase # "new" =>
            /\ ~comp.pre.raised
            /\ Len(comp.pre.errors) =
                  (IF N # Arity THEN 1 ELSE Cardinality(FailingLiterals)))
    /\ [](PostTransformed =>
            /\ ~comp.post.raised
            /\ Len(comp.post.errors) =
                  Cardinality(FailingLiterals) + Cardinality(NonLiteralStatics))
    /\ [][(phase = "new" => (phase' = "pre_transformed" /\ ValidationFrame))
          /\ ((phase = "transformed" /\ ~comp.t.result) =>
                 (phase' = "post_transformed" /\ ValidationFrame))]_vars

(* pre_transform has returned with two failing literal children reported. *)
C22_Witness ==
    phase = "pre_transformed" /\ Len(comp.pre.errors) >= 2

(***************************************************************************)
(* C23. In eval_calculate a finished argument that fails validate_argument *)
(* raises a hard failure in that same call, naming the argument, before    *)
(* Base::eval is invoked; the call leaves the node's value and finished    *)
(* flag as they were.                                                      *)
(***************************************************************************)
ValidatedPasses(k) ==
    validate_argument(call, last.validated[k][1], last.validated[k][2])

C23_RuntimeValidation ==
    Calculated =>
        /\ \A k \in 1..Len(last.validated) :
              /\ ges[last.validated[k][1]].finished
              /\ last.validated[k][2] = ges[last.validated[k][1]].value
              /\ k < Len(last.validated) => ValidatedPasses(k)
        /\ last.raised <=>
              (last.validated # <<>> /\ ~ValidatedPasses(Len(last.validated)))
        /\ last.raised =>
              /\ ~last.evaled /\ ~last.primary_called
              /\ ges[0] = last.pre
              /\ \E k \in 1..Len(state.unfinished) :
                    state.unfinished[k] = last.validated[Len(last.validated)][1]
        /\ ~last.raised =>
              \A k \in 1..Len(state.unfinished) : ~ges[state.unfinished[k]].finished

(* The first argument passed validation, the second one failed it. *)
C23_Witness ==
    /\ Calculated /\ last.raised /\ Len(last.validated) = 2
    /\ ~ges[0].finished

(***************************************************************************)
(* C24. Two transactions evaluating the same post-transform graph with     *)
(* separate GraphEvalStates, interleaved in any order, each reach exactly  *)
(* what they reach alone: no evaluation step writes the shared graph or    *)
(* Base, a step of one transaction leaves the other's state alone, and     *)
(* every change of a transaction's state is a step of that transaction.    *)
(***************************************************************************)
FirstTx == <<ges, state, log, readied, last, phase, extra>>

C24_Isolation ==
    [][/\ phase \in {"uninit", "running"} => (call' = call /\ comp' = comp)
       /\ FirstTx' # FirstTx => (Next /\ other' = other)
       /\ other' # other => (OtherNext /\ FirstTx' = FirstTx)]_vars

(* One transaction raised on a rejected argument; the other one, on the    *)
(* same graph, finished with a list value.                                 *)
C24_Witness ==
    /\ other.phase = "running" /\ other.raised
    /\ phase = "running" /\ ges[0].finished /\ ~last.raised
    /\ is_list(ges[0].value) /\ Len(ges[0].value.l) >= 1

(***************************************************************************)
(* C25. merge_graph.replace is reached from transform only: no evaluation  *)
(* operation (eval_initialize, eval_calculate and the hooks it calls:      *)
(* ready, eval_each, eval_map, eval_filter, eval_selector) replaces a      *)
(* node or changes a node's children, index or literal flag.               *)
(***************************************************************************)
EvaluationStep == last'.op \in {"eval_initialize", "eval_calculate"}

C25_EvaluationKeepsGraph ==
    [][EvaluationStep =>
          /\ call' = call
          /\ comp'.replaces = comp.replaces
          /\ comp'.graph = comp.graph
          /\ comp'.index = comp.index
          /\ comp' = comp]_vars

(* A selector went through ready and eval_selector over a list and was     *)
(* calculated again after it finished; its node was never replaced.        *)
C25_Witness ==
    /\ Calculated /\ call.kind = "Selector" /\ ges[0].finished
    /\ Len(Logged("eval_selector")) >= 2
    /\ extra >= 1
    /\ comp.replaces = 0 /\ comp.graph = "call"

(***************************************************************************)
(* C26. As stated: ready is invoked once per structurally-new primary      *)
(* value; an eval_calculate call after one in which ready already ran,     *)
(* which sees the same primary again (the same list, grown or not, or a    *)
(* finished node), does not call ready again.                              *)
(***************************************************************************)
C26_ReadyOnce ==
    (Calculated /\ last.readied) => last.ready_calls = 0

(***************************************************************************)
(* C26, amended. ready is invoked exactly once in every eval_primary call  *)
(* that sees a non-null primary value, a scalar or a list, also when an    *)
(* earlier call saw the same list or the node is already finished; it is   *)
(* not invoked while the primary is Null nor when eval_primary is not      *)
(* reached.                                                                *)
(***************************************************************************)
C26_ReadyEveryCall ==
    Calculated =>
        last.ready_calls =
            IF CalculatedPrimary /\ ~is_null(ges[N].value) THEN 1 ELSE 0

(* A call that saw the list of an earlier call again, on a finished node,  *)
(* and invoked ready once more.                                            *)
C26_Witness ==
    /\ CalculatedPrimary /\ ListPrimary
    /\ last.readied /\ last.pre.finished
    /\ last.ready_calls = 1

(***************************************************************************)
(* C27. As stated: a node's index is assigned by the finalize pass only;   *)
(* before that pass no operation, Call::transform in particular, has       *)
(* given any node an index.                                                *)
(***************************************************************************)
Finalized == phase \in {"uninit", "running"}

C27_IndexOnlyByFinalize ==
    ~Finalized => comp.index = Unindexed

(***************************************************************************)
(* C27, amended. The finalize pass gives the nodes unique contiguous       *)
(* indices from 0 and no evaluation operation changes them; before it,     *)
(* Call::transform of a call whose children are all literal assigns        *)
(* index 0 to the call and 1, 2, ... to its children in order (a node at   *)
(* several positions keeps the last one), and finalize overwrites these.   *)
(***************************************************************************)
IndexSet == {comp.index[p] : p \in 0..N}

FinalIndexing ==
    /\ IndexSet = 0..(Cardinality(IndexSet) - 1)
    /\ \A p \in 1..N : comp.index[p] # comp.index[0]
    /\ \A p, q \in 1..N :
          comp.index[p] = comp.index[q] <=> NodeOf(call, p) = NodeOf(call, q)

FoldIndexing ==
    /\ comp.index[0] = 0
    /\ \A p \in 1..N :
          /\ comp.index[p] \in p..N
          /\ NodeOf(call, comp.index[p]) = NodeOf(call, p)
          /\ \A r \in (comp.index[p] + 1)..N : NodeOf(call, r) # NodeOf(call, p)

C27_IndexAssignment ==
    /\ [](Finalized => FinalIndexing)
    /\ [](~Finalized =>
            IF AllLiteral(call) /\ comp.t.on # "none"
            THEN FoldIndexing ELSE comp.index = Unindexed)
    /\ [][comp'.index # comp.index =>
            \/ phase = "pre_transformed" /\ AllLiteral(call)
            \/ phase = "post_transformed" /\ Finalized']_vars

(* A call with one literal node at two child positions was given fold      *)
(* indices by transform and was indexed again by finalize, with other      *)
(* indices.                                                                *)
C27_Witness ==
    /\ Finalized /\ AllLiteral(call) /\ call.shared
    /\ comp.t.index # Unindexed /\ comp.t.index # comp.index

(***************************************************************************)
(* C28. During a fold attempt every distinct literal child node is         *)
(* initialized exactly once in the isolated evaluation context, also when  *)
(* one node occurs at several child positions; the node itself is          *)
(* initialized exactly once and evaluated exactly once.                    *)
(***************************************************************************)
InitializedTimes(node) ==
    Cardinality({k \in 1..Len(T.initialized) : T.initialized[k] = node})

C28_FoldInitializesOnce ==
    FoldAttempt =>
        /\ \A p \in 1..N : InitializedTimes(NodeOf(call, p)) = 1
        /\ \A k \in 1..Len(T.initialized) :
              \E p \in 1..N : T.initialized[k] = NodeOf(call, p)
        /\ T.inits = (IF T.raised THEN 0 ELSE 1)
        /\ T.evals = T.inits

(* A fold attempt on a call that holds one literal node at two positions. *)
C28_Witness ==
    /\ FoldAttempt /\ ~T.raised /\ call.shared
    /\ N >= 2 /\ Len(T.initialized) < N
    /\ T.inits = 1 /\ T.evals = 1

(***************************************************************************)
(* C29. Every cleanup function registered with a MemoryManager through     *)
(* register_cleanup is invoked when the underlying memory pool is          *)
(* destroyed, and is not invoked before that destruction.                  *)
(***************************************************************************)
InvokedTimes(k) ==
    Cardinality({i \in 1..Len(pool.invoked) : pool.invoked[i] = k})

C30_SimpleArgs ==
    \A k \in 1..Len(Logged("eval_simple")) :
        LET args == Logged("eval_simple")[k].args
        IN /\ Len(args) = call.num_dynamic_args
           /\ args = ValuesOf(ges, call.num_static_args + 1, N)

(***************************************************************************)
(* C31. In one transaction runtime validate_argument is invoked exactly    *)
(* once for each non-literal child whose validation passes, in the first   *)
(* eval_calculate call made after the child finished, with the child's     *)
(* position and finished value; never for a child that is literal at       *)
(* eval_initialize time, nor for an unfinished child.                      *)
(***************************************************************************)
Pending(st) == {st.unfinished[k] : k \in 1..Len(st.unfinished)}

ValidatedPositions(l) == {l.validated[k][1] : k \in 1..Len(l.validated)}

PassedPositions(l) ==
    {l.validated[k][1] : k \in {j \in 1..Len(l.validated) :
        validate_argument(call, l.validated[j][1], l.validated[j][2])}}

C31_ValidatedOnce ==
    /\ [](phase = "running" =>
            /\ \A p \in Pending(state) : ~call.children[p].literal
            /\ (Calculated /\ ~last.raised) =>
                  \A p \in Pending(state) : ~ges[p].finished)
    /\ [][(phase = "uninit" /\ phase' = "running") =>
            Pending(state') = {p \in 1..N : ~call.children[p].literal}]_vars
    /\ [][(phase = "running" /\ last'.op = "child") => state' = state]_vars
    /\ [][(phase = "running" /\ last'.op = "eval_calculate") =>
            /\ Cardinality(ValidatedPositions(last')) = Len(last'.validated)
            /\ \A k \in 1..Len(last'.validated) :
                  LET p == last'.validated[k][1] IN
                  /\ p \in Pending(state)
                  /\ ges[p].finished
                  /\ last'.validated[k][2] = ges[p].value
            /\ Pending(state') = Pending(state) \ PassedPositions(last')
            /\ ~last'.raised =>
                  \A p \in Pending(state) :
                      ges[p].finished => p \in ValidatedPositions(last')]_vars

(* A streaming primary was validated in the call after it finished, when   *)
(* the map had already produced output from its elements.                  *)
C31_Witness ==
    /\ Calculated /\ ~last.raised /\ call.kind = "Map" /\ ListPrimary
    /\ N \in ValidatedPositions(last)
    /\ N \notin Pending(state)
    /\ last.pre.local /\ Len(last.pre.value.l) >= 1

(***************************************************************************)
(* C32. As stated: a runtime validation failure is sticky.  The failing    *)
(* argument stays in the unfinished list (arguments validated before it    *)
(* in the same call are removed), every later eval_calculate on the node   *)
(* in the transaction raises the same failure again, Base::eval is not     *)
(* invoked after the first failure and the node does not become finished.  *)
(***************************************************************************)
Failed == phase = "running" /\ last.failure # 0

CalculateStep == phase = "running" /\ last'.op = "eval_calculate"

FailureKept ==
    (Calculated /\ last.raised) =>
        /\ last.failure = last.validated[Len(last.validated)][1]
        /\ last.failure \in Pending(state)
        /\ \A k \in 1..(Len(last.validated) - 1) :
              last.validated[k][1] \notin Pending(state)

RaisesAgain ==
    (Failed /\ CalculateStep) =>
        /\ last'.raised
        /\ ~last'.evaled /\ ~last'.primary_called
        /\ ges'[0] = ges[0] /\ log' = log

NodeStaysOpen ==
    (CalculateStep /\ last'.raised) => ges'[0] = ges[0]

(* Position of an argument in the unfinished list. *)
ListIndex(st, p) == CHOOSE k \in 1..Len(st.unfinished) : st.unfinished[k] = p

C32_SameFailure ==
    /\ [] FailureKept
    /\ [][RaisesAgain]_vars
    /\ [][NodeStaysOpen]_vars
    /\ [][(Failed /\ CalculateStep) => last'.failure = last.failure]_vars

(***************************************************************************)
(* C32, amended. A runtime validation failure is sticky: the failing       *)
(* argument stays in the unfinished list, every later eval_calculate       *)
(* raises a validation failure again without invoking Base::eval and       *)
(* leaves the node's state as it was.  The failure raised again is the     *)
(* same one unless an argument earlier in the list has finished since      *)
(* with a value that fails too; then the failure names that argument.      *)
(***************************************************************************)
C32_StickyFailure ==
    /\ [] FailureKept
    /\ [][RaisesAgain]_vars
    /\ [][NodeStaysOpen]_vars
    /\ [][(Failed /\ CalculateStep) =>
            /\ ListIndex(state, last'.failure) <= ListIndex(state, last.failure)
            /\ last'.failure # last.failure =>
                  /\ last.op = "child"
                  /\ ~validate_argument(call, last'.failure, ges[last'.failure].value)
            /\ (Calculated /\ last.raised) => last'.failure = last.failure]_vars

(* A second failure in one transaction, raised for an argument that        *)
(* finished after the first failure, with the first failing argument       *)
(* still pending.                                                          *)
C32_Witness ==
    /\ Calculated /\ last.raised /\ last.again
    /\ ~ges[0].finished
    /\ \E p \in Pending(state) :
          /\ ListIndex(state, last.failure) < ListIndex(state, p)
          /\ ges[p].finished
          /\ ~validate_argument(call, p, ges[p].value)

(***************************************************************************)
(* C33. For an Each-family node whose primary value is a non-null,         *)
(* non-list scalar and whose secondaries are finished, one eval_calculate  *)
(* call invokes ready once and eval_each exactly once, with the primary    *)
(* value as subvalue, and leaves the node finished, whether or not the     *)
(* primary node is finished.                                               *)
(***************************************************************************)
ScalarPrimary ==
    EachFamily /\ N >= 1 /\ ~is_null(ges[N].value) /\ ~is_list(ges[N].value)

EachLog == Logged("eval_each")

C33_ScalarPrimary ==
    [][(CalculateStep /\ CalculatedPrimary' /\ ScalarPrimary) =>
          /\ last'.ready_calls = 1
          /\ Len(EachLog') = Len(EachLog) + 1
          /\ IsPrefix(EachLog, EachLog')
          /\ EachLog'[Len(EachLog')].v = ges[N].value
          /\ EachLog'[Len(EachLog')].args = last'.sec
          /\ ges'[0].finished]_vars

(* A selector over a scalar that does not pass was finished by one call,   *)
(* with a secondary argument and with the primary node still unfinished.   *)
C33_Witness ==
    /\ CalculatedPrimary /\ ScalarPrimary /\ call.kind = "Selector"
    /\ N >= 2 /\ ~ges[N].finished
    /\ ~Passes(ges[N].value)
    /\ ges[0].finished /\ is_null(ges[0].value)
    /\ last.ready_calls = 1 /\ Len(EachLog) = 1

(***************************************************************************)
(* C34. A Filter node whose primary value is a non-list scalar finishes    *)
(* in that eval_calculate call: with the primary value itself if           *)
(* eval_filter passes it, without a value if not; eval_filter's            *)
(* early_finish output makes no difference.                                *)
(***************************************************************************)
C34_FilterScalar ==
    (CalculatedPrimary /\ ScalarPrimary /\ call.kind = "Filter") =>
        /\ ges[0].finished
        /\ ~ges[0].local
        /\ ges[0].value = (IF Passes(ges[N].value) THEN ges[N].value ELSE Null)
        /\ Len(Logged("eval_filter")) = 1
        /\ Logged("eval_filter")[1].v = ges[N].value

(* A scalar that passes and asks for an early finish: the filter finished  *)
(* with that scalar as its value.                                          *)
C34_Witness ==
    /\ CalculatedPrimary /\ ScalarPrimary /\ call.kind = "Filter"
    /\ Passes(ges[N].value) /\ EarlyFinishes(ges[N].value)
    /\ ges[0].finished /\ ges[0].value = ges[N].value

(***************************************************************************)
(* C35. For a Filter node over a list primary, an element for which        *)
(* eval_filter returns pass and early_finish is appended to the output     *)
(* list before the node finishes: the finished output is the passing       *)
(* elements up to and including that element.                              *)
(***************************************************************************)
FilterLog == Subvalues("eval_filter")

PassingEarly ==
    /\ call.kind = "Filter" /\ ListPrimary /\ FilterLog # <<>>
    /\ Passes(FilterLog[Len(FilterLog)])
    /\ EarlyFinishes(FilterLog[Len(FilterLog)])

C35_PassingEarlyAppended ==
    PassingEarly =>
        LET out == ges[0].value.l
            upto == SubSeq(PrimaryList, 1, Len(FilterLog))
        IN /\ ges[0].finished /\ ges[0].local
           /\ out # <<>>
           /\ out[Len(out)] = FilterLog[Len(FilterLog)]
           /\ out = SelectSeq(upto, Passes)

(* After a failing and a passing element, a passing element asked for an   *)
(* early finish while the primary list held one more element.              *)
C35_Witness ==
    /\ PassingEarly /\ ges[0].finished
    /\ Len(FilterLog) >= 2 /\ Len(PrimaryList) > Len(FilterLog)
    /\ Len(ges[0].value.l) < Len(FilterLog)
    /\ ges[0].value.l[Len(ges[0].value.l)] = FilterLog[Len(FilterLog)]

(***************************************************************************)
(* C36. Primary::eval's assertion that a primary argument state was found  *)
(* holds for every Primary-family call node that passed the arity          *)
(* validation of pre_transform, also for functions declared with           *)
(* num_static_args + num_dynamic_args = 0.                                 *)
(***************************************************************************)
C36_PrimaryStateFound ==
    (EachFamily /\ phase # "new" /\ Validated) =>
        /\ ~T.abort
        /\ ~last.abort
        /\ phase # "crashed"

Occurrences ==
    {k \in 0..(str.haystack_len - str.needle_len) :
        \A j \in 0..(str.needle_len - 1) :
            str.haystack[k + j + 1] = str.needle[j + 1]}

C38_FirstOccurrence ==
    /\ \A off \in str.reads : off < str.haystack_len
    /\ str.pc = "done" =>
          IF str.haystack_len = 0 \/ str.needle_len = 0
                \/ str.needle_len > str.haystack_len \/ Occurrences = {}
          THEN str.result = StrNull
          ELSE /\ ~str.result.null
               /\ str.result.offset \in Occurrences
               /\ \A k \in Occurrences : str.result.offset <= k

(* The needle occurs twice in the first haystack_len bytes, not at offset  *)
(* 0, and the haystack buffer is longer than haystack_len.                 *)
C38_Witness ==
    /\ str.pc = "done" /\ ~str.result.null
    /\ str.result.offset >= 1
    /\ Cardinality(Occurrences) >= 2
    /\ Len(str.haystack) > str.haystack_len

====
